---- MODULE Spec2Model ----
(***************************************************************************)
(* State-machine model of sqlalchemy_signing.Signatures: the table of      *)
(* Signing rows, the injected clock, the engine configuration, and one     *)
(* action per public method (write_key, expire_key, check_key, verify_key  *)
(* with its request_limiter wrapper, rotate_key, rotate_keys, query_keys,  *)
(* get_all).  Every method is an operator from (committed table, clock,    *)
(* arguments) to (table, outcome); the actions apply the operators to the  *)
(* state.  Spec drives all methods over a table of up to MaxKeys rows;     *)
(* BulkSpec drives the rotation methods over up to MaxBulkKeys rows.       *)
(*                                                                         *)
(* Time is counted in hours.  Signatures are the integers 1..MaxKeys, each *)
(* standing for one token secrets.token_urlsafe can return.                *)
(***************************************************************************)
EXTENDS Integers, Sequences, FiniteSets, TLC

\* ------------------------------------------------------------------ bounds
\* number of distinct tokens the generator can return (so: of rows)
MaxKeys == 2
\* number of rows an engine with rate limiting enabled is driven to
MaxLimitedKeys == 1
\* the clock runs from 0 to MaxClock hours
MaxClock == 2
\* the bulk-rotation specification: number of tokens, and number of rows at
\* which write_key is no longer called directly (later rows come from rotation)
MaxBulkKeys == 4
MaxBulkIssued == 2
\* the concurrent specification: number of tokens, and number of calls each of
\* the two callers makes
MaxRaceKeys == 3
MaxRaceCalls == 2

\* --------------------------------------------------------------- constants
\* previous_key=None, and "no signature" as a return value
NoKey == 0
\* datetime.datetime(9999, 12, 31, 23, 59, 59): the never-expires sentinel.  It
\* is also the largest datetime: adding hours beyond it raises OverflowError
Never == 50
\* rate_limiting_max_requests and rate_limiting_period (hours) of the engine
RateLimitingMaxRequests == 2
RateLimitingPeriod == 2
\* expiration=None of rotate_key: inherit the parent's expiration_int
NoOverride == -1

Tokens == 1..MaxKeys
Signatures == 0..MaxKeys

\* ------------------------------------------------------------------ strings
\* A list element that is not a str: x.lower() raises AttributeError on it
NotAString == "<int>"

\* str.lower() on the strings the model uses
Lower(s) ==
    CASE s = "Read" -> "read"
      [] s = "Write" -> "write"
      [] s = "Bob@X.org" -> "bob@x.org"
      [] OTHER -> s

\* The characters of the strings the model uses
Chars(s) ==
    CASE s = "read" -> <<"r", "e", "a", "d">>
      [] s = "write" -> <<"w", "r", "i", "t", "e">>
      [] s = "rea" -> <<"r", "e", "a">>
      [] OTHER -> <<s>>

\* Python argument values: None, a str, or a list of elements
PyNone == [kind |-> "none", v |-> <<>>]
PyStr(s) == [kind |-> "str", v |-> <<s>>]
PyList(l) == [kind |-> "list", v |-> l]

Range(f) == {f[i] : i \in DOMAIN f}

\* inflight: the calls that concurrent callers (threads, each with its own
\* session of the scoped_session) have begun and not finished, with the row
\* each has loaded; and how many calls per key have been let through
VARIABLES db, now, safe_mode, rate_limiting, last, inflight
vars == <<db, now, safe_mode, rate_limiting, last, inflight>>

\* ------------------------------------------------------------- the session
\* Every method works on the one thread-local session of scoped_session: sess
\* is the session's view of the table (committed rows plus pending changes).
\* session.commit(): the session's view becomes the committed table
Commit(committed, sess) == sess
\* session.rollback(), and closing a session that holds uncommitted changes
RollbackKeepsChanges(committed, sess) == sess
Rollback(committed, sess) == committed

\* What a call produces: the committed table, the exception kind ("ok" for a
\* normal return), the exception message, the returned signature
Out(d, res, msg, ret) == [db |-> d, res |-> res, msg |-> msg, ret |-> ret]

\* ------------------------------------------------------------ generate_key
\* key = generate_key(); while key is in use: key = generate_key().
\* draws = <<first draw, the draw that ends the loop>>; the second is NoKey
\* when every token is in use (the loop cannot end).
UniqueKeyFirstDraw(used, draws) == draws[1]
UniqueKey(used, draws) == IF draws[1] \notin used THEN draws[1] ELSE draws[2]

Draws(used) ==
    {<<f, g>> : f \in Tokens,
                g \in IF Tokens \ used = {} THEN {NoKey} ELSE Tokens \ used}

\* ------------------------------------------------------------- write_key
\* modified_scope of write_key: always a list, lower-cased
ModifiedScope(scope) ==
    IF scope.kind = "str" THEN <<Lower(scope.v[1])>>
    ELSE IF scope.kind = "list" THEN [i \in DOMAIN scope.v |-> Lower(scope.v[i])]
    ELSE <<>>

WriteKey(committed, sess, t, draws, scope, expiration, active, email, previous_key) ==
    LET key == UniqueKey(DOMAIN sess, draws)
    IN IF key = NoKey
       \* every token is in use: the loop does not end (the actions exclude it)
       THEN Out(committed, "NoToken", "", NoKey)
       ELSE IF scope.kind = "list" /\ NotAString \in Range(scope.v)
       THEN Out(Rollback(committed, sess), "AttributeError", "", NoKey)
       ELSE IF expiration # 0 /\ t + expiration > Never
       THEN Out(Rollback(committed, sess), "OverflowError", "", NoKey)
       ELSE LET new_key == [ scope |-> ModifiedScope(scope),
                             email |-> IF email # "" THEN Lower(email) ELSE "",
                             active |-> active,
                             rotated |-> FALSE,
                             expiration |-> IF expiration # 0 THEN t + expiration
                                            ELSE Never,
                             expiration_int |-> expiration,
                             timestamp |-> t,
                             request_count |-> 0,
                             last_request_time |-> t,
                             previous_key |-> previous_key ]
                added == [k \in DOMAIN sess \cup {key} |->
                             IF k = key THEN new_key ELSE sess[k]]
            IN Out(Commit(committed, added), "ok", "", key)

\* ------------------------------------------------------------- expire_key
ExpireKeyNoCommit(d, key) ==
    IF key \notin DOMAIN d
    THEN Out(d, "KeyDoesNotExist", "This key does not exist.", NoKey)
    ELSE Out(Rollback(d, [d EXCEPT ![key].active = FALSE]), "ok", "", NoKey)
ExpireKey(d, key) ==
    IF key \notin DOMAIN d
    THEN Out(d, "KeyDoesNotExist", "This key does not exist.", NoKey)
    ELSE Out(Commit(d, [d EXCEPT ![key].active = FALSE]), "ok", "", NoKey)

\* -------------------------------------------------------------- check_key
\* scope = [scope] for a str, then
\* signing_key.scope and not set(scope).intersection(set(signing_key.scope))
ScopeMatchesAll(stored, scope) ==
    stored = <<>> \/ Range(scope.v) \subseteq Range(stored)
ScopeMatches(stored, scope) ==
    stored = <<>> \/ Range(scope.v) \cap Range(stored) # {}

\* "if isinstance(scope, str): scope = [scope]": what set(scope) is built from.
\* Without the conversion set() would iterate the characters of the str.
RequestedScopeUnwrapped(scope) ==
    IF scope.kind = "str" THEN Chars(scope.v[1]) ELSE scope.v
RequestedScope(scope) ==
    IF scope.kind = "str" THEN <<scope.v[1]>> ELSE scope.v

\* raise KeyExpired("This key is no longer active.")
InactiveErrorOwnKind(d) == Out(d, "KeyInactive", "This key is no longer active.", NoKey)
InactiveError(d) == Out(d, "KeyExpired", "This key is no longer active.", NoKey)

\* the guard of that raise
IsInactiveNever(k) == FALSE
IsInactive(k) == ~k.active

CheckKey(d, t, signature, scope) ==
    IF signature \notin DOMAIN d
    THEN Out(d, "KeyDoesNotExist", "This key does not exist.", NoKey)
    ELSE IF IsInactive(d[signature])
    THEN InactiveError(d)
    ELSE IF d[signature].expiration < t
    THEN Out(ExpireKey(d, signature).db, "KeyExpired", "This key is expired.", NoKey)
    ELSE IF ~ScopeMatches(d[signature].scope, PyList(RequestedScope(scope)))
    THEN Out(d, "ScopeMismatch", "This key does not match the required scope.", NoKey)
    ELSE Out(d, "ok", "", NoKey)

\* ------------------------------------------ request_limiter and verify_key
\* "if signing_key:" of the wrapper: limit only a key that exists
LimiterAppliesAlways(d, limiting, signature) == limiting
LimiterIgnoresFlag(d, limiting, signature) == signature \in DOMAIN d
LimiterApplies(d, limiting, signature) == limiting /\ signature \in DOMAIN d

\* datetime_override() - signing_key.last_request_time >= self.rate_limiting_period
WindowPassedAlways(t, last_request_time) == TRUE
WindowPassed(t, last_request_time) == t - last_request_time >= RateLimitingPeriod

\* signing_key.request_count >= self.rate_limiting_max_requests
LimitReachedOffByOne(count) == count > RateLimitingMaxRequests
LimitReached(count) == count >= RateLimitingMaxRequests

\* raise RateLimitExceeded inside "with self.Session() as session": the session
\* closes without a commit and the wrapped method is not called
ThrottleAfterCheck(d, sess, t, signature, scope) ==
    Out(CheckKey(d, t, signature, scope).db, "RateLimitExceeded",
        "Too many requests. Please try again later.", NoKey)
Throttle(d, sess, t, signature, scope) ==
    Out(Rollback(d, sess), "RateLimitExceeded",
        "Too many requests. Please try again later.", NoKey)

\* session.commit() of the counters, then "return self.func(...)"
AcceptCommitsAfterCheck(d, sess, t, signature, scope) ==
    LET checked == CheckKey(d, t, signature, scope)
    IN IF checked.res = "ok"
       THEN Out(Commit(d, sess), "ok", "", NoKey)
       ELSE checked
Accept(d, sess, t, signature, scope) ==
    CheckKey(Commit(d, sess), t, signature, scope)

VerifyKey(d, t, limiting, signature, scope) ==
    IF ~LimiterApplies(d, limiting, signature)
    THEN CheckKey(d, t, signature, scope)
    ELSE IF signature \notin DOMAIN d
    \* signing_key is None: None.last_request_time raises AttributeError
    THEN Out(d, "AttributeError", "", NoKey)
    ELSE LET k == d[signature]
             reset == WindowPassed(t, k.last_request_time)
             count == IF reset THEN 0 ELSE k.request_count
             pending == IF reset
                        THEN [d EXCEPT ![signature].request_count = 0,
                                       ![signature].last_request_time = t]
                        ELSE d
             sess == [pending EXCEPT ![signature].request_count = count + 1,
                                     ![signature].last_request_time = t]
         IN IF LimitReached(count)
            THEN Throttle(d, pending, t, signature, scope)
            ELSE Accept(d, sess, t, signature, scope)

\* -------------------------------------------------------------- rotate_key
\* "Disable old key": signing_key.active = False; signing_key.rotated = True
DisableOldKeyNot(d, key) == [d EXCEPT ![key].rotated = TRUE]
DisableOldKey(d, key) == [d EXCEPT ![key].active = FALSE, ![key].rotated = TRUE]

\* the two safe-mode guards of rotate_key
SafeModeErrorNone(d, safe, key) == "ok"
SafeModeErrorNoRotatedGuard(d, safe, key) ==
    IF safe /\ ~d[key].active THEN "KeyExpired" ELSE "ok"
SafeModeErrorNoActiveGuard(d, safe, key) ==
    IF safe /\ d[key].rotated THEN "AlreadyRotated" ELSE "ok"
SafeModeError(d, safe, key) ==
    IF safe /\ d[key].rotated THEN "AlreadyRotated"
    ELSE IF safe /\ ~d[key].active THEN "KeyExpired"
    ELSE "ok"

\* "if expiration is None: expiration = signing_key.expiration_int"
NewExpirationZeroInherits(expiration, inherited) ==
    IF expiration = NoOverride \/ expiration = 0 THEN inherited ELSE expiration
NewExpiration(expiration, inherited) ==
    IF expiration = NoOverride THEN inherited ELSE expiration

RotateKey(d, t, safe, draws, key, expiration, overwrite_scope) ==
    IF key \notin DOMAIN d
    THEN Out(Rollback(d, d), "KeyDoesNotExist", "This key does not exist.", NoKey)
    ELSE IF SafeModeError(d, safe, key) = "AlreadyRotated"
    THEN Out(Rollback(d, d), "AlreadyRotated", "Key has already been rotated", NoKey)
    ELSE IF SafeModeError(d, safe, key) = "KeyExpired"
    THEN Out(Rollback(d, d), "KeyExpired", "You cannot rotate a disabled key", NoKey)
    ELSE LET sess == DisableOldKey(d, key)
             exp == NewExpiration(expiration, d[key].expiration_int)
         IN IF overwrite_scope.kind = "list" /\ NotAString \in Range(overwrite_scope.v)
            THEN Out(Rollback(d, sess), "AttributeError", "", NoKey)
            ELSE LET modified_scope ==
                        IF overwrite_scope.kind \in {"str", "list"}
                        THEN ModifiedScope(overwrite_scope)
                        ELSE d[key].scope
                 IN WriteKey(d, sess, t, draws, PyList(modified_scope), exp,
                             TRUE, d[key].email, key)

\* ------------------------------------------------------------- rotate_keys
\* json.dumps of a list of str: the text the JSON column holds
RECURSIVE JsonItems(_)
JsonItems(l) ==
    IF l = <<>> THEN <<>>
    ELSE <<"\"">> \o Chars(Head(l)) \o <<"\"">>
         \o (IF Len(l) > 1 THEN <<",", " ">> ELSE <<>>) \o JsonItems(Tail(l))
JsonDumps(l) == <<"[">> \o JsonItems(l) \o <<"]">>

IsInfix(p, text) ==
    \E i \in 0..(Len(text) - Len(p)) : SubSeq(text, i + 1, i + Len(p)) = p

\* Signing.scope.comparator.contains(s): scope LIKE '%' || s || '%'
Contains(stored, s) == IsInfix(Chars(s), JsonDumps(stored))

\* the signatures the query of rotate_keys selects
ExpiringAnyActive(d, t, time_until, scope, only_active_key_rotation) ==
    {k \in DOMAIN d :
        /\ d[k].expiration <= t + time_until
        /\ scope.v # <<>> => \A s \in Range(scope.v) : Contains(d[k].scope, s)}
Expiring(d, t, time_until, scope, only_active_key_rotation) ==
    {k \in DOMAIN d :
        /\ d[k].expiration <= t + time_until
        /\ d[k].active = only_active_key_rotation
        /\ scope.v # <<>> => \A s \in Range(scope.v) : Contains(d[k].scope, s)}

\* for signature in expiring_signatures: rotate_key(signature, overwrite_scope=...)
\* order is the order query.all() returns the selection in; gens holds the
\* token each successive write_key ends its loop with.  An exception leaves
\* the loop; what earlier iterations committed stays committed.  pairs is
\* key_list: the value returned when res is "ok", and otherwise the rotations
\* the call had committed when the exception left the loop.
RECURSIVE RotateEachSkipsFailing(_, _, _, _, _, _, _)
RotateEachSkipsFailing(d, t, safe, order, gens, overwrite_scope, key_list) ==
    IF order = <<>>
    THEN [db |-> d, res |-> "ok", msg |-> "", ret |-> NoKey, pairs |-> key_list]
    ELSE LET g == IF gens = <<>> THEN NoKey ELSE Head(gens)
             out == RotateKey(d, t, safe, <<g, g>>, Head(order), NoOverride,
                              overwrite_scope)
         IN IF out.res # "ok"
            THEN RotateEachSkipsFailing(out.db, t, safe, Tail(order), gens,
                                        overwrite_scope, key_list)
            ELSE RotateEachSkipsFailing(out.db, t, safe, Tail(order),
                            IF gens = <<>> THEN <<>> ELSE Tail(gens), overwrite_scope,
                            Append(key_list, <<Head(order), out.ret>>))
RECURSIVE RotateEach(_, _, _, _, _, _, _)
RotateEach(d, t, safe, order, gens, overwrite_scope, key_list) ==
    IF order = <<>>
    THEN [db |-> d, res |-> "ok", msg |-> "", ret |-> NoKey, pairs |-> key_list]
    ELSE LET g == IF gens = <<>> THEN NoKey ELSE Head(gens)
             out == RotateKey(d, t, safe, <<g, g>>, Head(order), NoOverride,
                              overwrite_scope)
         IN IF out.res # "ok"
            THEN [db |-> out.db, res |-> out.res, msg |-> out.msg, ret |-> NoKey,
                  pairs |-> key_list]
            ELSE RotateEach(out.db, t, safe, Tail(order),
                            IF gens = <<>> THEN <<>> ELSE Tail(gens), overwrite_scope,
                            Append(key_list, <<Head(order), out.ret>>))

\* datetime_override() + timedelta(hours=time_until) is computed for the
\* query, before any row is selected
RotateKeys(d, t, safe, time_until, order, gens, overwrite_scope) ==
    IF t + time_until > Never
    THEN [db |-> d, res |-> "OverflowError", msg |-> "", ret |-> NoKey, pairs |-> <<>>]
    ELSE RotateEach(d, t, safe, order, gens, overwrite_scope, <<>>)

\* ---------------------------------------------------- query_keys, get_all
\* the dictionary both methods build for a row
Projection(d, k) ==
    [ signature |-> k, email |-> d[k].email, scope |-> d[k].scope,
      active |-> d[k].active, timestamp |-> d[k].timestamp,
      expiration |-> d[k].expiration, previous_key |-> d[k].previous_key,
      rotated |-> d[k].rotated ]

\* the rows query.all() of query_keys returns: one filter per argument given
Matching(d, active, scope, email, previous_key) ==
    {k \in DOMAIN d :
        /\ active # "None" => d[k].active = (active = "True")
        /\ scope.v # <<>> => \A s \in Range(scope.v) : Contains(d[k].scope, s)
        /\ email # "" => d[k].email = email
        /\ previous_key # NoKey => d[k].previous_key = previous_key}

\* "if not result: raise Exception(...)"; rows is the returned list (as a set:
\* the query has no ORDER BY)
QueryKeysReturnsEmpty(d, active, scope, email, previous_key) ==
    [db |-> d, res |-> "ok", msg |-> "", ret |-> NoKey,
     rows |-> {Projection(d, k) : k \in Matching(d, active, scope, email, previous_key)}]
QueryKeys(d, active, scope, email, previous_key) ==
    LET result == Matching(d, active, scope, email, previous_key)
    IN IF result = {}
       THEN [db |-> d, res |-> "Exception",
             msg |-> "No results found for given parameters.", ret |-> NoKey,
             rows |-> {}]
       ELSE [db |-> d, res |-> "ok", msg |-> "", ret |-> NoKey,
             rows |-> {Projection(d, k) : k \in result}]

\* self.get_model().query.all(): the Signing class is built on a plain
\* declarative_base(), which gives a class no "query" attribute
GetAll(d) ==
    [db |-> d, res |-> "AttributeError",
     msg |-> "type object 'Signing' has no attribute 'query'", ret |-> NoKey,
     rows |-> {}]

\* ------------------------------------------------------------------ inputs
TooLong == Never + 1

\* write_key calls: scope, expiration (hours), active, email ("" is None)
WriteArgs == {
    [scope |-> PyStr("Read"), expiration |-> 0, active |-> TRUE, email |-> "Bob@X.org"],
    [scope |-> PyStr("read"), expiration |-> 0, active |-> FALSE, email |-> "Bob@X.org"],
    [scope |-> PyList(<<"read", "Write">>), expiration |-> 1, active |-> TRUE, email |-> ""],
    [scope |-> PyNone, expiration |-> 1, active |-> TRUE, email |-> ""],
    [scope |-> PyList(<<"read", NotAString>>), expiration |-> 1, active |-> TRUE, email |-> ""],
    [scope |-> PyNone, expiration |-> TooLong, active |-> TRUE, email |-> ""] }

\* the scope argument of check_key and verify_key
CheckScopes == { PyStr("read"), PyStr("Read"), PyStr("write"),
                 PyList(<<"read">>), PyList(<<"write", "other">>) }

\* rotate_key calls: expiration and overwrite_scope
RotateArgs == {
    [expiration |-> NoOverride, overwrite_scope |-> PyNone],
    [expiration |-> 0, overwrite_scope |-> PyNone],
    [expiration |-> TooLong, overwrite_scope |-> PyNone],
    [expiration |-> NoOverride, overwrite_scope |-> PyStr("Write")],
    [expiration |-> NoOverride, overwrite_scope |-> PyList(<<"read", NotAString>>)] }

\* rotate_keys calls
RotateKeysArgs == {
    [time_until |-> 0, scope |-> PyNone, only_active |-> TRUE, overwrite_scope |-> PyNone],
    [time_until |-> 1, scope |-> PyNone, only_active |-> TRUE, overwrite_scope |-> PyNone],
    [time_until |-> 1, scope |-> PyStr("read"), only_active |-> TRUE,
     overwrite_scope |-> PyStr("Write")],
    [time_until |-> 1, scope |-> PyList(<<"rea", "write">>), only_active |-> TRUE,
     overwrite_scope |-> PyNone],
    [time_until |-> 0, scope |-> PyNone, only_active |-> FALSE, overwrite_scope |-> PyNone],
    [time_until |-> 1, scope |-> PyNone, only_active |-> FALSE,
     overwrite_scope |-> PyList(<<"read", NotAString>>)] }

\* the sequences that enumerate S without repetition, and those of length n
Perms(S) ==
    {f \in [1..Cardinality(S) -> S] : \A i, j \in DOMAIN f : f[i] = f[j] => i = j}
InjSeqs(S, n) ==
    {f \in [1..n -> S] : \A i, j \in DOMAIN f : f[i] = f[j] => i = j}
Min(a, b) == IF a <= b THEN a ELSE b

\* query_keys calls: active ("None" is None), scope, email ("" is None),
\* previous_key (NoKey is None)
QueryArgs == {
    [active |-> "None", scope |-> PyNone, email |-> "", previous_key |-> NoKey],
    [active |-> "True", scope |-> PyStr("read"), email |-> "", previous_key |-> NoKey],
    [active |-> "None", scope |-> PyStr("rea"), email |-> "", previous_key |-> NoKey],
    [active |-> "None", scope |-> PyList(<<"read", "write">>), email |-> "",
     previous_key |-> NoKey],
    [active |-> "None", scope |-> PyList(<<>>), email |-> "", previous_key |-> 1],
    [active |-> "False", scope |-> PyNone, email |-> "bob@x.org", previous_key |-> NoKey],
    [active |-> "None", scope |-> PyNone, email |-> "Bob@X.org", previous_key |-> NoKey],
    [active |-> "True", scope |-> PyStr("read"), email |-> "bob@x.org",
     previous_key |-> 1],
    [active |-> "None", scope |-> PyStr("other"), email |-> "", previous_key |-> NoKey] }

\* the tokens the generator is taken to return under this configuration
Pool == IF rate_limiting THEN 1..MaxLimitedKeys ELSE Tokens
Free == Pool \ DOMAIN db
DrawsIn(pool) ==
    {<<f, g>> : f \in pool,
                g \in IF pool \ DOMAIN db = {} THEN {NoKey} ELSE pool \ DOMAIN db}
DrawsNow == DrawsIn(Pool)
\* the tokens that end the loops of n successive write_key calls
GensIn(pool, n) ==
    InjSeqs(pool \ DOMAIN db, Min(n, Cardinality(pool \ DOMAIN db)))
GensNow(n) == GensIn(Pool, n)

\* ------------------------------------------------------- the last call made
\* op and sig: the method and its signature argument (for write_key: the first
\* token the generator returned); arg: the scope argument of write_key;
\* was_active, was_rotated: the fields of row sig before the call
Last(op, sig, arg, out, pairs) ==
    [ op |-> op, sig |-> sig, arg |-> arg,
      res |-> out.res, msg |-> out.msg, ret |-> out.ret, pairs |-> pairs,
      was_active |-> sig \in DOMAIN db /\ db[sig].active,
      was_rotated |-> sig \in DOMAIN db /\ db[sig].rotated ]

NoCall(op) ==
    [ op |-> op, sig |-> NoKey, arg |-> PyNone, res |-> "ok", msg |-> "",
      ret |-> NoKey, pairs |-> <<>>, was_active |-> FALSE, was_rotated |-> FALSE ]

\* --------------------------------------------------------- calls in flight
Callers == {1, 2}
RacePool == 1..MaxRaceKeys

\* a caller that is in no call; made counts the calls it has begun
Idle(made) == [pc |-> "idle", sig |-> NoKey, scope |-> PyNone, row |-> <<>>,
               made |-> made]

\* accepted[k]: verify_key calls on k the limiter has let through;
\* returned[k]: rotate_key calls on k that have returned a new key
NoneInFlight ==
    [ call |-> [p \in Callers |-> Idle(0)],
      accepted |-> [k \in RacePool |-> 0],
      returned |-> [k \in RacePool |-> 0] ]

\* ----------------------------------------------------------------- actions
TypeOK ==
    /\ DOMAIN db \subseteq Tokens
    /\ now \in 0..MaxClock
    /\ safe_mode \in BOOLEAN
    /\ rate_limiting \in BOOLEAN

Init ==
    /\ db = [k \in {} |-> 0]
    /\ now = 0
    /\ safe_mode \in BOOLEAN
    /\ rate_limiting \in BOOLEAN
    /\ last = NoCall("init")
    /\ inflight = NoneInFlight

\* datetime_override() returns a later time
Tick ==
    /\ now < MaxClock
    /\ now' = now + 1
    /\ last' = NoCall("tick")
    /\ UNCHANGED <<db, safe_mode, rate_limiting, inflight>>

\* One call of each method, with the generator's draws and the arguments drawn
\* from the given sets (generated[n]: the draws of n successive write_key calls)
WriteKeyStep(drawn, args) ==
    \E draws \in drawn, a \in args :
        LET out == WriteKey(db, db, now, draws, a.scope, a.expiration, a.active,
                            a.email, NoKey)
        IN /\ out.res # "NoToken"
           /\ db' = out.db
           /\ last' = [Last("write_key", NoKey, a.scope, out, <<>>)
                          EXCEPT !.sig = draws[1]]
           /\ UNCHANGED <<now, safe_mode, rate_limiting, inflight>>

ExpireKeyStep(sigs) ==
    \E key \in sigs :
        LET out == ExpireKey(db, key)
        IN /\ db' = out.db
           /\ last' = Last("expire_key", key, PyNone, out, <<>>)
           /\ UNCHANGED <<now, safe_mode, rate_limiting, inflight>>

CheckKeyStep(sigs, scopes) ==
    \E signature \in sigs, scope \in scopes :
        LET out == CheckKey(db, now, signature, scope)
        IN /\ db' = out.db
           /\ last' = Last("check_key", signature, PyNone, out, <<>>)
           /\ UNCHANGED <<now, safe_mode, rate_limiting, inflight>>

VerifyKeyStep(sigs, scopes) ==
    \E signature \in sigs, scope \in scopes :
        LET out == VerifyKey(db, now, rate_limiting, signature, scope)
        IN /\ db' = out.db
           /\ last' = Last("verify_key", signature, PyNone, out, <<>>)
           /\ UNCHANGED <<now, safe_mode, rate_limiting, inflight>>

RotateKeyStep(drawn, sigs, args) ==
    \E draws \in drawn, key \in sigs, a \in args :
        LET out == RotateKey(db, now, safe_mode, draws, key, a.expiration,
                             a.overwrite_scope)
        IN /\ out.res # "NoToken"
           /\ db' = out.db
           /\ last' = Last("rotate_key", key, PyNone, out, <<>>)
           /\ UNCHANGED <<now, safe_mode, rate_limiting, inflight>>

RotateKeysStep(generated, args) ==
    \E a \in args :
        LET sel == Expiring(db, now, a.time_until, a.scope, a.only_active)
        IN \E order \in Perms(sel), gens \in generated[Cardinality(sel)] :
            LET out == RotateKeys(db, now, safe_mode, a.time_until, order, gens,
                                  a.overwrite_scope)
            IN /\ out.res # "NoToken"
               /\ db' = out.db
               /\ last' = Last("rotate_keys", NoKey, PyNone, out, out.pairs)
               /\ UNCHANGED <<now, safe_mode, rate_limiting, inflight>>

QueryKeysStep(args) ==
    \E a \in args :
        LET out == QueryKeys(db, a.active, a.scope, a.email, a.previous_key)
        IN /\ db' = out.db
           /\ last' = Last("query_keys", NoKey, PyNone, out, <<>>)
           /\ UNCHANGED <<now, safe_mode, rate_limiting, inflight>>

GetAllStep ==
    LET out == GetAll(db)
    IN /\ db' = out.db
       /\ last' = Last("get_all", NoKey, PyNone, out, <<>>)
       /\ UNCHANGED <<now, safe_mode, rate_limiting, inflight>>

DoWriteKey == WriteKeyStep(DrawsNow, WriteArgs)
DoExpireKey == ExpireKeyStep(Signatures)
DoCheckKey == CheckKeyStep(Signatures, CheckScopes)
DoVerifyKey == VerifyKeyStep(Signatures, CheckScopes)
DoRotateKey == RotateKeyStep(DrawsNow, Signatures, RotateArgs)
DoRotateKeys == RotateKeysStep([n \in 0..MaxKeys |-> GensNow(n)], RotateKeysArgs)
DoQueryKeys == QueryKeysStep(QueryArgs)
DoGetAll == GetAllStep

Next ==
    \/ Tick
    \/ DoWriteKey
    \/ DoExpireKey
    \/ DoCheckKey
    \/ DoVerifyKey
    \/ DoRotateKey
    \/ DoRotateKeys
    \/ DoQueryKeys
    \/ DoGetAll

Spec == Init /\ [][Next]_vars

\* ------------------------------------------ the bulk-rotation specification
\* The same methods driven where rotate_keys has several rows to rotate and a
\* row can be rotated more than once: more tokens, fewer kinds of call.
BulkPool == 1..MaxBulkKeys
FarAhead == Never - 1

\* The generator returns the unused tokens in ascending order (which token a
\* row gets makes no difference to any method)
Ascending(S) == CHOOSE f \in Perms(S) : \A i, j \in DOMAIN f : i < j => f[i] < f[j]
BulkGens(n) ==
    LET free == Ascending(BulkPool \ DOMAIN db)
    IN {SubSeq(free, 1, Min(n, Len(free)))}
BulkDraws ==
    LET g == IF BulkGens(1) = {<<>>} THEN NoKey ELSE (CHOOSE f \in BulkGens(1) : TRUE)[1]
    IN {<<g, g>>}

\* a key that expires after an hour, and one whose expiration is the largest
\* datetime (accepted only while the clock reads 0)
BulkWriteArgs == {
    [scope |-> PyList(<<"read", "Write">>), expiration |-> 1, active |-> TRUE,
     email |-> ""],
    [scope |-> PyStr("Read"), expiration |-> Never, active |-> TRUE,
     email |-> "Bob@X.org"] }

BulkRotateArgs == { [expiration |-> NoOverride, overwrite_scope |-> PyNone] }

BulkRotateKeysArgs ==
    { [time_until |-> h, scope |-> PyNone, only_active |-> b,
       overwrite_scope |-> PyNone] : h \in {0, 1, FarAhead}, b \in BOOLEAN }

BulkInit ==
    /\ db = [k \in {} |-> 0]
    /\ now = 0
    /\ safe_mode \in BOOLEAN
    /\ rate_limiting = FALSE
    /\ last = NoCall("init")
    /\ inflight = NoneInFlight

BulkWriteKey ==
    /\ Cardinality(DOMAIN db) < MaxBulkIssued
    /\ WriteKeyStep(BulkDraws, BulkWriteArgs)
BulkExpireKey == ExpireKeyStep(BulkPool)
BulkCheckKey == CheckKeyStep(BulkPool, {PyStr("read")})
BulkRotateKey == RotateKeyStep(BulkDraws, BulkPool, BulkRotateArgs)
BulkRotateKeys ==
    RotateKeysStep([n \in 0..MaxBulkKeys |-> BulkGens(n)], BulkRotateKeysArgs)

BulkNext ==
    \/ Tick
    \/ BulkWriteKey
    \/ BulkExpireKey
    \/ BulkCheckKey
    \/ BulkRotateKey
    \/ BulkRotateKeys

BulkSpec == BulkInit /\ [][BulkNext]_vars

\* ---------------------------------------------- the concurrent specification
\* Two callers on one engine with safe mode and rate limiting on.  A call is
\* two steps: the query that loads the row into the caller's session, and the
\* rest of the method, which decides on the loaded row and commits.  The code
\* takes no lock and sets no isolation level, so the steps of two callers
\* interleave freely; the clock stands still (one rate-limiting window).
RaceWriteArgs ==
    { [scope |-> PyStr("read"), expiration |-> 0, active |-> TRUE, email |-> ""] }

RaceDraws ==
    LET free == Ascending(RacePool \ DOMAIN db)
        g == IF free = <<>> THEN NoKey ELSE free[1]
    IN {<<g, g>>}

RaceInit ==
    /\ db = [k \in {} |-> 0]
    /\ now = 0
    /\ safe_mode = TRUE
    /\ rate_limiting = TRUE
    /\ last = NoCall("init")
    /\ inflight = NoneInFlight

\* one key is issued before the callers start
RaceWriteKey ==
    /\ DOMAIN db = {}
    /\ WriteKeyStep(RaceDraws, RaceWriteArgs)

\* session.query(Signing).filter_by(signature=signature).first() of the
\* wrapper and of rotate_key: the caller's session now holds the row as read
Load(p, pc, signature, scope) ==
    /\ inflight.call[p].pc = "idle"
    /\ inflight.call[p].made < MaxRaceCalls
    /\ signature \in DOMAIN db
    /\ inflight' = [inflight EXCEPT !.call[p] =
                        [pc |-> pc, sig |-> signature, scope |-> scope,
                         row |-> db[signature], made |-> @.made + 1]]
    /\ UNCHANGED <<db, now, safe_mode, rate_limiting, last>>

LimiterLoad(p) ==
    \E signature \in DOMAIN db : Load(p, "limiter", signature, PyStr("read"))

\* the rest of the wrapper, on the row as loaded: reset, limit test, increment
\* and commit (an UPDATE of request_count and last_request_time of that row),
\* then the wrapped check_key
LimiterStore(p) ==
    LET c == inflight.call[p]
        reset == WindowPassed(now, c.row.last_request_time)
        count == IF reset THEN 0 ELSE c.row.request_count
        sess == [db EXCEPT ![c.sig].request_count = count + 1,
                           ![c.sig].last_request_time = now]
        out == IF LimitReached(count)
               THEN Throttle(db, db, now, c.sig, c.scope)
               ELSE Accept(db, sess, now, c.sig, c.scope)
    IN /\ c.pc = "limiter"
       /\ db' = out.db
       /\ last' = Last("verify_key", c.sig, PyNone, out, <<>>)
       /\ inflight' = [inflight EXCEPT
                          !.call[p] = Idle(c.made),
                          !.accepted[c.sig] =
                              IF LimitReached(count) THEN @ ELSE @ + 1]
       /\ UNCHANGED <<now, safe_mode, rate_limiting>>

RotateLoad(p) ==
    \E signature \in DOMAIN db : Load(p, "rotate", signature, PyNone)

\* the rest of rotate_key, on the row as loaded: the safe-mode guards, then one
\* commit that holds the UPDATE of the old row (active, rotated) and the INSERT
\* of the new row write_key builds from the loaded fields
RotateStore(p) ==
    LET c == inflight.call[p]
        loaded == [k \in {c.sig} |-> c.row]
        refused == SafeModeError(loaded, safe_mode, c.sig)
    IN /\ c.pc = "rotate"
       /\ \E draws \in RaceDraws :
            LET out == IF refused = "AlreadyRotated"
                       THEN Out(db, "AlreadyRotated", "Key has already been rotated",
                                NoKey)
                       ELSE IF refused = "KeyExpired"
                       THEN Out(db, "KeyExpired", "You cannot rotate a disabled key",
                                NoKey)
                       ELSE WriteKey(db, DisableOldKey(db, c.sig), now, draws,
                                     PyList(c.row.scope), c.row.expiration_int, TRUE,
                                     c.row.email, c.sig)
            IN /\ out.res # "NoToken"
               /\ db' = out.db
               /\ last' = Last("rotate_key", c.sig, PyNone, out, <<>>)
               /\ inflight' = [inflight EXCEPT
                                  !.call[p] = Idle(c.made),
                                  !.returned[c.sig] =
                                      IF out.res = "ok" THEN @ + 1 ELSE @]
       /\ UNCHANGED <<now, safe_mode, rate_limiting>>

RaceLimiterLoad == \E p \in Callers : LimiterLoad(p)
RaceLimiterStore == \E p \in Callers : LimiterStore(p)
RaceRotateLoad == \E p \in Callers : RotateLoad(p)
RaceRotateStore == \E p \in Callers : RotateStore(p)

RaceNext ==
    \/ RaceWriteKey
    \/ RaceLimiterLoad
    \/ RaceLimiterStore
    \/ RaceRotateLoad
    \/ RaceRotateStore

RaceSpec == RaceInit /\ [][RaceNext]_vars

\* ================================================================== claims

\* C1: a key issued by write_key with active=true passes check_key at the same
\* clock value for every scope string the caller passed at issuance, whatever
\* its letter case.
C1_IssuedScopePassesCheck ==
    (last.op = "write_key" /\ last.res = "ok" /\ db[last.ret].active) =>
        \A s \in Range(last.arg.v) : CheckKey(db, now, last.ret, PyStr(s)).res = "ok"

\* C2: for an existing, active, unexpired key check_key succeeds exactly when
\* the stored scope is empty or shares an element with the requested scope;
\* otherwise it fails with ScopeMismatch; no row changes either way.
C2_ScopeDecidesCheck ==
    \A k \in DOMAIN db, r \in CheckScopes :
        (db[k].active /\ db[k].expiration >= now) =>
            LET out == CheckKey(db, now, k, r)
                shares == \E i \in DOMAIN db[k].scope, j \in DOMAIN r.v :
                              db[k].scope[i] = r.v[j]
            IN /\ out.db = db
               /\ out.res = IF db[k].scope = <<>> \/ shares THEN "ok" ELSE "ScopeMismatch"

C2_Witness ==
    /\ last.op = "check_key" /\ last.res = "ScopeMismatch"
    /\ db[last.sig].active /\ db[last.sig].expiration >= now

\* C3: check_key on an active key whose expiration is in the past fails with
\* KeyExpired and leaves that row (and only that row) changed to active=false;
\* the same call again fails again and changes nothing.
C3_ExpiredCheckDeactivates ==
    \A k \in DOMAIN db, r \in CheckScopes :
        (db[k].active /\ db[k].expiration < now) =>
            LET first == CheckKey(db, now, k, r)
                again == CheckKey(first.db, now, k, r)
            IN /\ first.res = "KeyExpired"
               /\ first.db = [db EXCEPT ![k].active = FALSE]
               /\ again.res = "KeyExpired"
               /\ again.db = first.db

C3_Witness ==
    /\ last.op = "check_key" /\ last.msg = "This key is expired."
    /\ last.was_active /\ ~db[last.sig].active /\ db[last.sig].expiration < now

\* C4 (as claimed): check_key on a key with active=false fails with KeyInactive,
\* a kind other than the KeyExpired of a just-discovered expiry.
C4_InactiveHasOwnKind ==
    \A k \in DOMAIN db, r \in CheckScopes :
        ~db[k].active => CheckKey(db, now, k, r).res = "KeyInactive"

\* C4 (amended): check_key on a key with active=false fails with KeyExpired, the
\* kind it also reports when it discovers a time-based expiry; the two cases
\* differ in the message only, and only the second changes a row.
C4_InactiveAndExpiredShareKind ==
    \A k \in DOMAIN db, r \in CheckScopes :
        LET out == CheckKey(db, now, k, r)
        IN /\ ~db[k].active =>
                /\ out.res = "KeyExpired"
                /\ out.msg = "This key is no longer active."
                /\ out.db = db
           /\ (db[k].active /\ db[k].expiration < now) =>
                /\ out.res = "KeyExpired"
                /\ out.msg = "This key is expired."

C4_Witness ==
    /\ last.op = "check_key" /\ last.res = "KeyExpired"
    /\ last.sig \in DOMAIN db /\ ~last.was_active
    /\ \E k \in DOMAIN db : db[k].active /\ db[k].expiration < now

\* C5: verify_key on a signature without a row fails with KeyDoesNotExist with
\* rate limiting enabled and with it disabled, and leaves the table as it was.
C5_VerifyMissingKey ==
    \A signature \in Signatures \ DOMAIN db, r \in CheckScopes, limiting \in BOOLEAN :
        LET out == VerifyKey(db, now, limiting, signature, r)
        IN out.res = "KeyDoesNotExist" /\ out.db = db

C5_Witness ==
    /\ rate_limiting /\ db # <<>>
    /\ last.op = "verify_key" /\ last.res = "KeyDoesNotExist"

\* C6: a key with active=false fails check_key and verify_key for every
\* requested scope, the wildcard scope included; and no step of any operation
\* turns active=false back into active=true (or removes the row).
C6_InactiveStaysInvalid ==
    /\ [](\A k \in DOMAIN db : ~db[k].active =>
            \A r \in CheckScopes :
                /\ CheckKey(db, now, k, r).res # "ok"
                /\ VerifyKey(db, now, rate_limiting, k, r).res # "ok")
    /\ [][\A k \in DOMAIN db : ~db[k].active => (k \in DOMAIN db' /\ ~db'[k].active)]_vars

C6_Witness ==
    /\ last.op = "check_key" /\ last.res = "KeyExpired" /\ last.sig \in DOMAIN db
    /\ ~last.was_active /\ db[last.sig].scope = <<>> /\ db[last.sig].expiration >= now

\* C7: a successful rotate_key(k) without overrides returns a signature other
\* than k (one no row had); right afterwards check_key(k, s) fails with KeyExpired
\* for every s and check_key(new, s) succeeds for every scope s of k.
C7_RotateReplacesKey ==
    \A k \in DOMAIN db, draws \in DrawsNow :
        LET out == RotateKey(db, now, safe_mode, draws, k, NoOverride, PyNone)
        IN out.res = "ok" =>
            /\ out.ret # k /\ out.ret \notin DOMAIN db
            /\ \A r \in CheckScopes : CheckKey(out.db, now, k, r).res = "KeyExpired"
            /\ \A i \in DOMAIN db[k].scope :
                   /\ CheckKey(out.db, now, out.ret, PyStr(db[k].scope[i])).res = "ok"
                   /\ CheckKey(out.db, now, out.ret, PyList(<<db[k].scope[i]>>)).res = "ok"

C7_Witness ==
    /\ last.op = "rotate_key" /\ last.res = "ok" /\ last.was_active
    /\ db[last.ret].scope = db[last.sig].scope /\ Len(db[last.sig].scope) = 2
    /\ db[last.ret].expiration_int = db[last.sig].expiration_int
    /\ ~db[last.sig].active

\* C8: in safe mode rotate_key of a key with rotated=true fails with
\* AlreadyRotated, whatever the overrides, and leaves the table as it was.
C8_SecondRotateRejected ==
    safe_mode =>
        \A k \in DOMAIN db, draws \in DrawsNow, a \in RotateArgs :
            db[k].rotated =>
                LET out == RotateKey(db, now, safe_mode, draws, k, a.expiration,
                                     a.overwrite_scope)
                IN out.res = "AlreadyRotated" /\ out.db = db

C8_Witness ==
    /\ safe_mode /\ last.op = "rotate_key" /\ last.res = "AlreadyRotated"
    /\ last.was_rotated /\ \E j \in DOMAIN db : db[j].previous_key = last.sig

\* C9: rotate_key of a key with active=false, rotated=false: in safe mode it
\* fails with KeyExpired ("You cannot rotate a disabled key") and leaves the
\* table as it was; with safe mode off it succeeds, adding one active row whose
\* previous_key is the deactivated key.
C9_RotateDeactivatedKey ==
    \A k \in DOMAIN db, draws \in DrawsNow :
        (~db[k].active /\ ~db[k].rotated) =>
            LET out == RotateKey(db, now, safe_mode, draws, k, NoOverride, PyNone)
            IN IF safe_mode
               THEN /\ out.res = "KeyExpired"
                    /\ out.msg = "You cannot rotate a disabled key"
                    /\ out.db = db
               ELSE out.res # "NoToken" =>
                    /\ out.res = "ok"
                    /\ DOMAIN out.db = DOMAIN db \cup {out.ret}
                    /\ out.ret \notin DOMAIN db
                    /\ out.db[out.ret].active
                    /\ out.db[out.ret].previous_key = k

C9_Witness ==
    /\ ~safe_mode /\ last.op = "rotate_key" /\ last.res = "ok"
    /\ ~last.was_active /\ ~last.was_rotated
    /\ db[last.ret].active /\ db[last.ret].previous_key = last.sig

\* C10: when rotate_key fails after it has marked the old key (an exception in
\* the scope override or inside write_key), the old row has its original
\* active and rotated values and no row with previous_key = old key was added.
C10_FailedRotateChangesNothing ==
    \A k \in DOMAIN db, draws \in DrawsNow, a \in RotateArgs :
        LET out == RotateKey(db, now, safe_mode, draws, k, a.expiration,
                             a.overwrite_scope)
        IN out.res \in {"AttributeError", "OverflowError"} =>
            /\ out.db[k].active = db[k].active
            /\ out.db[k].rotated = db[k].rotated
            /\ {j \in DOMAIN out.db : out.db[j].previous_key = k}
                   = {j \in DOMAIN db : db[j].previous_key = k}
            /\ out.db = db

C10_Witness ==
    /\ last.op = "rotate_key" /\ last.res \in {"AttributeError", "OverflowError"}
    /\ last.was_active /\ db[last.sig].active /\ ~db[last.sig].rotated
    /\ \A j \in DOMAIN db : db[j].previous_key # last.sig

\* the rows rotate_key wrote as replacements of row k
Successors(d, k) == {j \in DOMAIN d : d[j].previous_key = k}

\* C11 (as stated): in every reachable state each row with rotated = true has
\* exactly one row whose previous_key is its signature.
C11_RotatedHasOneSuccessor ==
    \A k \in DOMAIN db : db[k].rotated => Cardinality(Successors(db, k)) = 1

\* C11 (amended): each row with rotated = true has at least one row whose
\* previous_key is its signature, and exactly one when the engine is in safe
\* mode; with safe mode off a rotated row can be rotated again, and every
\* further rotation adds one more such row.
C11_RotatedHasSuccessor ==
    \A k \in DOMAIN db :
        db[k].rotated =>
            /\ Cardinality(Successors(db, k)) >= 1
            /\ safe_mode => Cardinality(Successors(db, k)) = 1

\* a safe-mode engine has just refused to rotate a rotated row a second time
C11_Witness ==
    /\ safe_mode
    /\ last.op = "rotate_key"
    /\ last.res = "AlreadyRotated"
    /\ last.sig \in DOMAIN db
    /\ db[last.sig].rotated
    /\ Cardinality(Successors(db, last.sig)) = 1

\* the outcomes of n successive verify_key calls made at clock value t
RECURSIVE VerifyCalls(_, _, _, _, _, _)
VerifyCalls(d, t, limiting, signature, scope, n) ==
    IF n = 0 THEN <<>>
    ELSE LET out == VerifyKey(d, t, limiting, signature, scope)
         IN <<out>> \o VerifyCalls(out.db, t, limiting, signature, scope, n - 1)

\* C12: with rate limiting on (N requests per window W) and a key that is
\* otherwise valid, the verify calls made within one window succeed until N
\* have been accepted, the next one fails with RateLimitExceeded, and a call
\* made once the clock is at least W past the last accepted call succeeds and
\* leaves request_count = 1.
C12_LimitPerWindow ==
    rate_limiting =>
        \A k \in DOMAIN db, r \in CheckScopes :
            LET N == RateLimitingMaxRequests
                used == IF now - db[k].last_request_time >= RateLimitingPeriod
                        THEN 0 ELSE db[k].request_count
                outs == VerifyCalls(db, now, TRUE, k, r, N + 1)
            IN CheckKey(db, now, k, r).res = "ok" =>
                /\ \A i \in 1..(N + 1) :
                      IF used + i <= N
                      THEN /\ outs[i].res = "ok"
                           /\ outs[i].db[k].request_count = used + i
                           /\ outs[i].db[k].last_request_time = now
                      ELSE outs[i].res = "RateLimitExceeded"
                /\ \A t \in now..MaxClock :
                      (/\ t - now >= RateLimitingPeriod
                       /\ CheckKey(db, t, k, r).res = "ok") =>
                          LET later == VerifyKey(outs[N + 1].db, t, TRUE, k, r)
                          IN /\ later.res = "ok"
                             /\ later.db[k].request_count = 1

\* the call after the N-th accepted one of a window has just been refused
C12_Witness ==
    /\ rate_limiting
    /\ last.op = "verify_key"
    /\ last.res = "RateLimitExceeded"
    /\ db[last.sig].request_count = RateLimitingMaxRequests
    /\ db[last.sig].last_request_time = now

\* C13: a verify call refused for rate limiting does not run check_key and
\* leaves every field of every row as it was: request_count and
\* last_request_time are not updated, and a key that is past its expiration
\* but still active stays active.
C13_ThrottledCallChangesNothing ==
    \A k \in Signatures, r \in CheckScopes :
        LET out == VerifyKey(db, now, rate_limiting, k, r)
        IN out.res = "RateLimitExceeded" => out.db = db

\* a key past its expiration and still active has just been throttled
C13_Witness ==
    /\ last.op = "verify_key"
    /\ last.res = "RateLimitExceeded"
    /\ db[last.sig].active
    /\ db[last.sig].expiration < now
    /\ db[last.sig].last_request_time < now

\* C14: with rate limiting off, verify_key returns or raises exactly what
\* check_key does and changes exactly what check_key changes, never raises
\* RateLimitExceeded however many calls are made, and request_count and
\* last_request_time of every row stay as write_key set them.
C14_UnlimitedVerifyIsCheck ==
    ~rate_limiting =>
        /\ \A k \in DOMAIN db :
              /\ db[k].request_count = 0
              /\ db[k].last_request_time = db[k].timestamp
        /\ \A k \in Signatures, r \in CheckScopes :
              LET v == VerifyKey(db, now, rate_limiting, k, r)
                  outs == VerifyCalls(db, now, rate_limiting, k, r,
                                      RateLimitingMaxRequests + 2)
              IN /\ v = CheckKey(db, now, k, r)
                 /\ \A i \in DOMAIN outs : outs[i].res # "RateLimitExceeded"

\* an unlimited engine has verified a key after its creation time and left its
\* counters as they were
C14_Witness ==
    /\ ~rate_limiting
    /\ last.op = "verify_key"
    /\ last.res = "ok"
    /\ db[last.sig].request_count = 0
    /\ db[last.sig].last_request_time < now

\* C15: every write_key call that succeeds adds exactly one row, under a
\* signature no row held before (also when the generator's first token is in
\* use), and changes no field of any row that existed; a call that fails
\* changes nothing.  So signatures stay pairwise distinct and no row's
\* signature changes.
C15_IssueAddsOneFreshRow ==
    \A draws \in DrawsNow, a \in WriteArgs :
        LET out == WriteKey(db, db, now, draws, a.scope, a.expiration, a.active,
                            a.email, NoKey)
        IN IF out.res = "ok"
           THEN /\ out.ret \notin DOMAIN db
                /\ DOMAIN out.db = DOMAIN db \cup {out.ret}
                /\ \A k \in DOMAIN db : out.db[k] = db[k]
           ELSE out.db = db

\* write_key has just succeeded although the generator first returned a token
\* that a row already held
C15_Witness ==
    /\ last.op = "write_key"
    /\ last.res = "ok"
    /\ last.sig \in DOMAIN db
    /\ last.sig # last.ret
    /\ last.ret \in DOMAIN db

\* the rotate_keys calls of C16 and C17: every order the query can return the
\* selection in, every choice of unused tokens
BulkCalls(time_until, only_active) ==
    LET sel == Expiring(db, now, time_until, PyNone, only_active)
    IN {[sel |-> sel, order |-> order,
         out |-> RotateKeys(db, now, safe_mode, time_until, order, gens, PyNone)] :
            order \in Perms(sel), gens \in GensIn(BulkPool, Cardinality(sel))}

\* the rows C16 says the call rotates
DueRows(time_until, only_active) ==
    {k \in DOMAIN db : /\ db[k].expiration <= now + time_until
                       /\ db[k].active = only_active}

\* out.pairs holds one pair (old, new) for each row of sel and for no other
\* row; each old row is now rotated and inactive, each new row is a row added
\* by the call with previous_key = old; no other row was changed
RotatedExactly(sel, out) ==
    LET olds == {out.pairs[i][1] : i \in DOMAIN out.pairs}
        news == {out.pairs[i][2] : i \in DOMAIN out.pairs}
    IN /\ Len(out.pairs) = Cardinality(sel)
       /\ olds = sel
       /\ Cardinality(news) = Cardinality(sel)
       /\ news \cap DOMAIN db = {}
       /\ DOMAIN out.db = DOMAIN db \cup news
       /\ \A i \in DOMAIN out.pairs :
             /\ out.db[out.pairs[i][2]].previous_key = out.pairs[i][1]
             /\ out.db[out.pairs[i][2]].active
             /\ out.db[out.pairs[i][1]].rotated
             /\ ~out.db[out.pairs[i][1]].active
       /\ \A k \in DOMAIN db \ sel : out.db[k] = db[k]

\* C16 (as stated): rotate_keys(time_until, only_active_key_rotation) without a
\* scope filter rotates exactly the rows with expiration <= now + time_until
\* and active = only_active_key_rotation and returns one pair for each of them
\* and for no other row.
C16_BulkRotatesSelection ==
    \A h \in {0, 1}, b \in BOOLEAN :
        \A c \in BulkCalls(h, b) :
            c.out.res # "NoToken" =>
                /\ c.out.res = "ok"
                /\ RotatedExactly(DueRows(h, b), c.out)

\* C16 (amended): the call selects the rows with expiration <= now +
\* time_until and active = only_active_key_rotation.  With
\* only_active_key_rotation = true, or with safe mode off, it rotates exactly
\* those rows and returns one pair for each and for no other row, provided the
\* inherited expiration of each still fits the calendar.  In safe mode with
\* only_active_key_rotation = false and a row selected, it raises KeyExpired or
\* AlreadyRotated on the first row and rotates nothing.  A one-hour key that a
\* failed check deactivated two hours after issuance is left alone by
\* rotate_keys(0) with the default only_active_key_rotation = true.
C16_BulkRotatesActiveSelection ==
    \A h \in {0, 1, FarAhead}, b \in BOOLEAN :
        \A c \in BulkCalls(h, b) :
            (c.out.res # "NoToken" /\ now + h <= Never) =>
                /\ c.sel = DueRows(h, b)
                /\ (b \/ ~safe_mode) =>
                      /\ c.out.res = "ok" <=>
                            \A k \in DueRows(h, b) :
                                now + db[k].expiration_int <= Never
                      /\ c.out.res = "ok" => RotatedExactly(DueRows(h, b), c.out)
                /\ (~b /\ safe_mode /\ DueRows(h, b) # {}) =>
                      /\ c.out.res \in {"KeyExpired", "AlreadyRotated"}
                      /\ c.out.db = db
                /\ (b /\ h = 0) =>
                      \A k \in DOMAIN db :
                          (/\ db[k].expiration_int = 1
                           /\ db[k].timestamp + 2 <= now
                           /\ ~db[k].active
                           /\ ~db[k].rotated) =>
                              /\ \A i \in DOMAIN c.out.pairs : c.out.pairs[i][1] # k
                              /\ c.out.db[k] = db[k]

\* rotate_keys has just rotated an expiring active key and left alone a
\* one-hour key that was deactivated after it expired
C16_Witness ==
    /\ last.op = "rotate_keys"
    /\ last.res = "ok"
    /\ Len(last.pairs) >= 1
    /\ \E k \in DOMAIN db :
          /\ db[k].expiration_int = 1
          /\ db[k].timestamp + 2 <= now
          /\ ~db[k].active
          /\ ~db[k].rotated
          /\ \A i \in DOMAIN last.pairs : last.pairs[i][1] # k

\* what rotate_key(k) alone raises in the current state ("ok": nothing)
SingleRes(k) ==
    LET free == BulkPool \ DOMAIN db
        g == IF free = {} THEN NoKey ELSE CHOOSE f \in free : TRUE
    IN RotateKey(db, now, safe_mode, <<g, g>>, k, NoOverride, PyNone).res

\* C17: when rotate_key fails for one of the rows rotate_keys selected, the
\* bulk call raises that error instead of skipping the row; the rotations of
\* the rows processed before it stay committed, the failing row is unchanged,
\* and no row after it (nor any row outside the selection) is modified.  When it
\* fails for none, the call succeeds.
C17_BulkFailsFast ==
    \A h \in {0, 1, FarAhead}, b \in BOOLEAN :
        \A c \in BulkCalls(h, b) :
            (c.out.res # "NoToken" /\ now + h <= Never) =>
                LET bad == {i \in DOMAIN c.order :
                               SingleRes(c.order[i]) \notin {"ok", "NoToken"}}
                IN IF bad = {}
                   THEN c.out.res = "ok"
                   ELSE LET n == (CHOOSE i \in bad : \A j \in bad : i <= j) - 1
                        IN /\ c.out.res = SingleRes(c.order[n + 1])
                           /\ Len(c.out.pairs) = n
                           /\ Cardinality(DOMAIN c.out.db) = Cardinality(DOMAIN db) + n
                           /\ \A i \in 1..n :
                                 /\ c.out.pairs[i][1] = c.order[i]
                                 /\ c.out.pairs[i][2] \in DOMAIN c.out.db \ DOMAIN db
                                 /\ c.out.db[c.out.pairs[i][2]].previous_key = c.order[i]
                                 /\ c.out.db[c.order[i]].rotated
                                 /\ ~c.out.db[c.order[i]].active
                           /\ \A i \in (n + 1)..Len(c.order) :
                                 c.out.db[c.order[i]] = db[c.order[i]]
                           /\ \A k \in DOMAIN db \ c.sel : c.out.db[k] = db[k]

\* rotate_keys has just raised after it had rotated at least one row
C17_Witness ==
    /\ last.op = "rotate_keys"
    /\ last.res # "ok"
    /\ Len(last.pairs) >= 1
    /\ \A i \in DOMAIN last.pairs :
          /\ db[last.pairs[i][1]].rotated
          /\ db[last.pairs[i][2]].previous_key = last.pairs[i][1]
          /\ db[last.pairs[i][2]].timestamp = now

\* C18: query_keys(scope=S) returns exactly the rows whose stored scope list
\* has every string of S as one of its elements (the whole string, not a part
\* of one), in conjunction with the active, email and previous_key filters.
C18_QueryScopeIsMembership ==
    \A a \in QueryArgs :
        LET out == QueryKeys(db, a.active, a.scope, a.email, a.previous_key)
            expected ==
                {k \in DOMAIN db :
                    /\ Range(a.scope.v) \subseteq Range(db[k].scope)
                    /\ a.active # "None" => db[k].active = (a.active = "True")
                    /\ a.email # "" => db[k].email = a.email
                    /\ a.previous_key # NoKey => db[k].previous_key = a.previous_key}
        IN out.rows = {Projection(db, k) : k \in expected}

C20_GetAllReturnsEveryRow ==
    last.op = "get_all" =>
        LET out == GetAll(db)
        IN /\ last.res = "ok"
           /\ out.res = "ok"
           /\ out.rows = {Projection(db, k) : k \in DOMAIN db}

\* C21: a str s and the one-element list [s] are interchangeable as scope:
\* write_key stores the same row for either, and check_key has the same
\* outcome for either on every key in every state.
C21_StrIsOneElementList ==
    \A s \in {"read", "Read", "write", "other"} :
        /\ \A draws \in DrawsNow, a \in WriteArgs :
              WriteKey(db, db, now, draws, PyStr(s), a.expiration, a.active,
                       a.email, NoKey)
              = WriteKey(db, db, now, draws, PyList(<<s>>), a.expiration, a.active,
                         a.email, NoKey)
        /\ \A k \in Signatures :
              CheckKey(db, now, k, PyStr(s)) = CheckKey(db, now, k, PyList(<<s>>))

\* a key issued with a str scope has just passed a check
C21_Witness ==
    /\ last.op = "check_key"
    /\ last.res = "ok"
    /\ db[last.sig].scope = <<"read">>
    /\ db[last.sig].active

\* C22: when two callers run verify_key on the same key concurrently with rate
\* limiting on, no counter update is lost: once no call is in flight,
\* request_count of each key is the number of calls the limiter has accepted for
\* it in the window, and under every interleaving that number is at most
\* max_requests.
C22_NoLostUpdate ==
    \A k \in DOMAIN db :
        /\ inflight.accepted[k] <= RateLimitingMaxRequests
        /\ (\A p \in Callers : inflight.call[p].pc = "idle") =>
              db[k].request_count = inflight.accepted[k]

\* C23: when two callers run rotate_key on the same active key concurrently in
\* safe mode, at most one call succeeds and the key has at most one successor;
\* a key is never seen rotated without a successor, nor active with one.
C23_OneRotationWins ==
    \A k \in DOMAIN db :
        /\ inflight.returned[k] <= 1
        /\ Cardinality(Successors(db, k)) <= 1
        /\ db[k].rotated => Successors(db, k) # {}
        /\ Successors(db, k) # {} => ~db[k].active

\* C24: with rate limiting on, a verify_key call on an existing key that is
\* not throttled persists request_count increased by exactly one (counted from
\* 0 if the window had passed) and last_request_time = now before check_key
\* runs: the outcome is the one check_key gives, and the counters stay persisted
\* also when that outcome is KeyExpired or ScopeMismatch.
C24_AcceptedCallIsCounted ==
    rate_limiting =>
        \A k \in DOMAIN db, r \in CheckScopes :
            LET out == VerifyKey(db, now, TRUE, k, r)
                checked == CheckKey(db, now, k, r)
                used == IF now - db[k].last_request_time >= RateLimitingPeriod
                        THEN 0 ELSE db[k].request_count
            IN out.res # "RateLimitExceeded" =>
                /\ out.db[k].request_count = used + 1
                /\ out.db[k].last_request_time = now
                /\ out.res = checked.res
                /\ out.msg = checked.msg
                /\ out.db[k].active = checked.db[k].active

\* a call the limiter let through has just failed its check, and is counted
C24_Witness ==
    /\ rate_limiting
    /\ last.op = "verify_key"
    /\ last.res \in {"KeyExpired", "ScopeMismatch"}
    /\ db[last.sig].request_count >= 1
    /\ db[last.sig].last_request_time = now
    /\ now > db[last.sig].timestamp

\* C25: the row rotate_key(k) adds has previous_key = k, active = true,
\* rotated = false and the email of k; its expiration_int is the expiration
\* argument when one is given (0 gives a key that never expires) and otherwise
\* that of k, with expiration = now + that many hours; its scope is the
\* lower-cased overwrite_scope when one is given and otherwise the scope of k.
C25_SuccessorFields ==
    \A draws \in DrawsNow, k \in DOMAIN db, a \in RotateArgs :
        LET out == RotateKey(db, now, safe_mode, draws, k, a.expiration,
                             a.overwrite_scope)
            hours == IF a.expiration = NoOverride THEN db[k].expiration_int
                     ELSE a.expiration
        IN out.res = "ok" =>
            /\ out.ret \in DOMAIN out.db \ DOMAIN db
            /\ out.db[out.ret].previous_key = k
            /\ out.db[out.ret].active
            /\ ~out.db[out.ret].rotated
            /\ out.db[out.ret].email = db[k].email
            /\ out.db[out.ret].expiration_int = hours
            /\ out.db[out.ret].expiration = IF hours = 0 THEN Never ELSE now + hours
            /\ out.db[out.ret].timestamp = now
            /\ out.db[out.ret].scope =
                  IF a.overwrite_scope = PyNone THEN db[k].scope
                  ELSE IF a.overwrite_scope.kind = "str"
                  THEN <<Lower(a.overwrite_scope.v[1])>>
                  ELSE [i \in DOMAIN a.overwrite_scope.v |->
                           Lower(a.overwrite_scope.v[i])]

\* a one-hour key has just been rotated with expiration=0: its successor never
\* expires
C25_Witness ==
    /\ last.op = "rotate_key"
    /\ last.res = "ok"
    /\ db[last.sig].expiration_int = 1
    /\ db[last.ret].previous_key = last.sig
    /\ db[last.ret].expiration_int = 0
    /\ db[last.ret].expiration = Never

\* following previous_key from k reaches, within n rows, a row that has none
RECURSIVE ReachesRoot(_, _, _)
ReachesRoot(d, k, n) ==
    IF k = NoKey THEN TRUE
    ELSE IF n = 0 \/ k \notin DOMAIN d THEN FALSE
    ELSE ReachesRoot(d, d[k].previous_key, n - 1)

NoCycle(d) ==
    \A k \in DOMAIN d :
        /\ d[k].previous_key # k
        /\ ReachesRoot(d, k, Cardinality(DOMAIN d))

C27_WindowBound ==
    /\ [](rate_limiting =>
             \A k \in DOMAIN db : db[k].request_count <= RateLimitingMaxRequests)
    /\ [][rate_limiting =>
             \A k \in DOMAIN db :
                 LET accepted == /\ last'.op = "verify_key"
                                 /\ last'.sig = k
                                 /\ last'.res # "RateLimitExceeded"
                 IN /\ now' >= now
                    /\ accepted =>
                          /\ db'[k].last_request_time = now
                          /\ db'[k].request_count =
                                IF now - db[k].last_request_time >= RateLimitingPeriod
                                THEN 1 ELSE db[k].request_count + 1
                    /\ ~accepted =>
                          /\ db'[k].request_count = db[k].request_count
                          /\ db'[k].last_request_time = db[k].last_request_time]_vars

\* the limiter has just accepted the last call the window allows
C27_Witness ==
    /\ rate_limiting
    /\ last.op = "verify_key"
    /\ last.res = "ok"
    /\ db[last.sig].request_count = RateLimitingMaxRequests
    /\ db[last.sig].last_request_time = now

====
